---------------------------- MODULE Spec2Model ----------------------------
(***************************************************************************)
(* Model of the cluster status controller                                  *)
(* (pkg/controllers/status/cluster_status_controller.go).                  *)
(*                                                                         *)
(* One reconciliation of a Cluster is a walk of program counter pc[c]:     *)
(*   idle -> client -> probe -> (poll) -> version -> discovery -> summary  *)
(*        -> persist -> done -> idle                                       *)
(* Every step that talks to the control plane or to the member cluster is  *)
(* one action; the answer of the remote side is drawn with \E.             *)
(***************************************************************************)
EXTENDS Integers, Sequences, FiniteSets, TLC

(***************************************************************************)
(* Bounds of the model.                                                    *)
(***************************************************************************)
MaxTime == 2
MaxReconciles == 2
MaxNodes == 2
MaxPods == 2

(***************************************************************************)
(* Program constants.                                                      *)
(***************************************************************************)
clusterStatusRetryInterval == 500
clusterStatusRetryTimeout == 2000
StatusOK == 200
StatusNotFound == 404
ClusterStatusUpdateFrequency == 10

clusterReady == "ClusterReady"
clusterHealthy == "cluster is reachable and health endpoint responded with ok"
clusterNotReady == "ClusterNotReady"
clusterUnhealthy == "cluster is reachable but health endpoint responded without ok"
clusterNotReachableReason == "ClusterNotReachable"
clusterNotReachableMsg == "cluster is not reachable"
ClusterConditionReady == "Ready"
ConditionTrue == "True"
ConditionFalse == "False"

Clusters == {"member1", "member2"}

(***************************************************************************)
(* wait.Poll(interval, timeout, condition): the poller ticks once per      *)
(* interval, a tick is dropped when the consumer is still busy, and the    *)
(* timer closes the channel at the timeout (the tick due at that same      *)
(* instant races with the timer).  The condition runs once for every tick  *)
(* delivered and once more when the channel is closed.                     *)
(***************************************************************************)
MaxTicks == clusterStatusRetryTimeout \div clusterStatusRetryInterval
MaxPollCalls == MaxTicks + 1

(***************************************************************************)
(* Data.                                                                   *)
(***************************************************************************)
\* corev1.ResourceList: a map from resource name to quantity.  Quantities
\* are integers (milli-units for cpu, bytes scaled to Mi for memory).
NoResources == [n \in {} |-> 0]

\* v1alpha1.NodeSummary zero value.
ZeroNodeSummary ==
    [totalNum |-> 0, readyNum |-> 0, allocatable |-> NoResources, used |-> NoResources]

\* v1alpha1.ClusterStatus zero value.
ZeroClusterStatus ==
    [conditions |-> <<>>, kubernetesVersion |-> "", apiEnablements |-> <<>>,
     nodeSummary |-> ZeroNodeSummary]

\* What healthEndpointCheck can return.  The REST client reports every
\* response outside 200..206 as an error that still carries the status
\* code (line 167 tests "err != nil && healthStatus == 404"); a transport
\* failure has no status code.
ProbeResults ==
    { [code |-> 0, err |-> TRUE],
      [code |-> StatusOK, err |-> FALSE],
      [code |-> 202, err |-> FALSE],
      [code |-> StatusNotFound, err |-> TRUE],
      [code |-> 500, err |-> TRUE] }

NoResult == [code |-> -1, err |-> FALSE]

\* Server versions the member cluster may report.
Versions == {"v1.19.1", "v1.20.2"}

\* Discovery answers: a list of (groupVersion, resource names).
APIResourceLists ==
    { << [GroupVersion |-> "v1", APIResources |-> <<"pods", "nodes">>],
         [GroupVersion |-> "apps/v1", APIResources |-> <<"deployments">>] >> }

\* Node lists the member cluster may answer with.
NodeReady == [conditions |-> << [type |-> "Ready", status |-> "True"] >>,
              allocatable |-> [n \in {"cpu", "memory"} |-> IF n = "cpu" THEN 4000 ELSE 8]]
NodeNotReady == [conditions |-> << [type |-> "MemoryPressure", status |-> "False"],
                                   [type |-> "Ready", status |-> "False"] >>,
                 allocatable |-> [n \in {"cpu", "memory"} |-> IF n = "cpu" THEN 2000 ELSE 4]]
NodeNoCondition == [conditions |-> <<>>,
                    allocatable |-> [n \in {"cpu"} |-> 1000]]

NodeLists == { <<NodeReady, NodeNotReady, NodeNoCondition>> }

\* Pod lists the member cluster may answer with.
ContainerA == [requests |-> [n \in {"cpu", "memory"} |-> IF n = "cpu" THEN 500 ELSE 128]]
ContainerB == [requests |-> [n \in {"cpu", "memory"} |-> IF n = "cpu" THEN 250 ELSE 64]]
ContainerC == [requests |-> [n \in {"cpu", "pods"} |-> IF n = "cpu" THEN 100 ELSE 1]]

PodServing == [phase |-> "Running",
               conditions |-> << [type |-> "Initialized", status |-> "True"],
                                 [type |-> "Ready", status |-> "True"] >>,
               containers |-> <<ContainerA>>]
PodServing2 == [phase |-> "Running",
                conditions |-> << [type |-> "Ready", status |-> "True"] >>,
                containers |-> <<ContainerB, ContainerC>>]
PodUnready == [phase |-> "Running",
               conditions |-> << [type |-> "Ready", status |-> "False"] >>,
               containers |-> <<ContainerA>>]
PodPending == [phase |-> "Pending", conditions |-> <<>>, containers |-> <<ContainerB>>]

PodLists == { <<PodServing, PodServing2, PodUnready, PodPending>> }

\* What a member cluster may hold: the answers to the two list calls, and
\* the answers its health endpoints may give.
Members ==
    {[nodes |-> n, pods |-> p, answers |-> ProbeResults] :
        n \in NodeLists, p \in PodLists}

(***************************************************************************)
(* Pure functions of the controller.                                       *)
(***************************************************************************)
\* util.IsClusterReady: the status holds a Ready condition that is True.
IsClusterReady(clusterStatus) ==
    \E i \in 1..Len(clusterStatus.conditions) :
        /\ clusterStatus.conditions[i].type = ClusterConditionReady
        /\ clusterStatus.conditions[i].status = ConditionTrue

\* Variant of getClusterHealthStatus that falls back on any error of /readyz.
GetClusterHealthStatusAnyError(readyz, healthz) ==
    LET fallback == readyz.err
        final == IF fallback THEN healthz ELSE readyz
        asked == IF fallback THEN <<"/readyz", "/healthz">> ELSE <<"/readyz">>
    IN  IF final.err
          THEN [online |-> FALSE, healthy |-> FALSE, asked |-> asked]
          ELSE IF final.code # StatusOK
                 THEN [online |-> TRUE, healthy |-> FALSE, asked |-> asked]
                 ELSE [online |-> TRUE, healthy |-> TRUE, asked |-> asked]

\* getClusterHealthStatus: readyz is what /readyz answers, healthz what
\* /healthz answers when it is asked.  asked lists the paths requested.
GetClusterHealthStatus(readyz, healthz) ==
    LET fallback == readyz.err /\ readyz.code = StatusNotFound
        final == IF fallback THEN healthz ELSE readyz
        asked == IF fallback THEN <<"/readyz", "/healthz">> ELSE <<"/readyz">>
    IN  IF final.err
          THEN [online |-> FALSE, healthy |-> FALSE, asked |-> asked]
          ELSE IF final.code # StatusOK
                 THEN [online |-> TRUE, healthy |-> FALSE, asked |-> asked]
                 ELSE [online |-> TRUE, healthy |-> TRUE, asked |-> asked]

\* Variant of generateReadyCondition that appends a condition per finding
\* instead of returning at the first.
GenerateReadyConditionAppended(isOnline, isHealthy, currentTime) ==
    LET cond(status, reason, message) ==
            [type |-> ClusterConditionReady, status |-> status,
             reason |-> reason, message |-> message,
             lastTransitionTime |-> currentTime]
        offline == IF ~isOnline
                     THEN <<cond(ConditionFalse, clusterNotReachableReason,
                                 clusterNotReachableMsg)>>
                     ELSE <<>>
        notReady == IF ~isHealthy
                      THEN <<cond(ConditionFalse, clusterNotReady, clusterUnhealthy)>>
                      ELSE <<>>
    IN  IF isOnline /\ isHealthy
          THEN <<cond(ConditionTrue, clusterReady, clusterHealthy)>>
          ELSE offline \o notReady

\* generateReadyCondition at wall-clock time currentTime.
GenerateReadyCondition(isOnline, isHealthy, currentTime) ==
    LET newClusterOfflineCondition ==
            [type |-> ClusterConditionReady, status |-> ConditionFalse,
             reason |-> clusterNotReachableReason, message |-> clusterNotReachableMsg,
             lastTransitionTime |-> currentTime]
        newClusterReadyCondition ==
            [type |-> ClusterConditionReady, status |-> ConditionTrue,
             reason |-> clusterReady, message |-> clusterHealthy,
             lastTransitionTime |-> currentTime]
        newClusterNotReadyCondition ==
            [type |-> ClusterConditionReady, status |-> ConditionFalse,
             reason |-> clusterNotReady, message |-> clusterUnhealthy,
             lastTransitionTime |-> currentTime]
    IN  IF ~isOnline
          THEN <<newClusterOfflineCondition>>
          ELSE IF ~isHealthy
                 THEN <<newClusterNotReadyCondition>>
                 ELSE <<newClusterReadyCondition>>

\* Variant of setTransitionTime that never copies the old timestamp.
SetTransitionTimeFresh(oldClusterStatus, newClusterStatus) == newClusterStatus

\* Variant of setTransitionTime that copies the old timestamp without
\* comparing the classifications.
SetTransitionTimeSticky(oldClusterStatus, newClusterStatus) ==
    IF Len(oldClusterStatus.conditions) # 0
      THEN [newClusterStatus EXCEPT !.conditions =
                [i \in 1..Len(newClusterStatus.conditions) |->
                    [newClusterStatus.conditions[i] EXCEPT !.lastTransitionTime =
                        oldClusterStatus.conditions[1].lastTransitionTime]]]
      ELSE newClusterStatus

\* Variant of setTransitionTime that compares the reasons of the conditions
\* instead of the readiness classifications.
SetTransitionTimeByReason(oldClusterStatus, newClusterStatus) ==
    IF /\ Len(oldClusterStatus.conditions) # 0
       /\ Len(newClusterStatus.conditions) # 0
       /\ oldClusterStatus.conditions[1].reason = newClusterStatus.conditions[1].reason
      THEN [newClusterStatus EXCEPT !.conditions =
                [i \in 1..Len(newClusterStatus.conditions) |->
                    [newClusterStatus.conditions[i] EXCEPT !.lastTransitionTime =
                        oldClusterStatus.conditions[1].lastTransitionTime]]]
      ELSE newClusterStatus

\* Variant of setTransitionTime without the test of line 235: an old status
\* without a condition hands on the zero time (written -1).
SetTransitionTimeNoLenCheck(oldClusterStatus, newClusterStatus) ==
    IF IsClusterReady(oldClusterStatus) = IsClusterReady(newClusterStatus)
      THEN [newClusterStatus EXCEPT !.conditions =
                [i \in 1..Len(newClusterStatus.conditions) |->
                    [newClusterStatus.conditions[i] EXCEPT !.lastTransitionTime =
                        IF Len(oldClusterStatus.conditions) # 0
                          THEN oldClusterStatus.conditions[1].lastTransitionTime
                          ELSE -1]]]
      ELSE newClusterStatus

\* setTransitionTime: the new status after the call (the old one is only read).
SetTransitionTime(oldClusterStatus, newClusterStatus) ==
    IF /\ IsClusterReady(oldClusterStatus) = IsClusterReady(newClusterStatus)
       /\ Len(oldClusterStatus.conditions) # 0
      THEN [newClusterStatus EXCEPT !.conditions =
                [i \in 1..Len(newClusterStatus.conditions) |->
                    [newClusterStatus.conditions[i] EXCEPT !.lastTransitionTime =
                        oldClusterStatus.conditions[1].lastTransitionTime]]]
      ELSE newClusterStatus

\* equality.Semantic.DeepEqual on two ClusterStatus values.  Statuses are
\* kept in canonical form (nil and empty collections are the same value,
\* quantities and times are compared by value), so it is equality of values.
SemanticDeepEqual(a, b) ==
    /\ a.conditions = b.conditions
    /\ a.kubernetesVersion = b.kubernetesVersion
    /\ a.apiEnablements = b.apiEnablements
    /\ a.nodeSummary = b.nodeSummary

\* getAPIEnablements: one APIEnablement per discovered list.
GetAPIEnablements(apiResourceList) ==
    [i \in 1..Len(apiResourceList) |->
        [GroupVersion |-> apiResourceList[i].GroupVersion,
         Resources |-> apiResourceList[i].APIResources]]

\* getReadyStatusForNode.
GetReadyStatusForNode(nodeStatus) ==
    \E i \in 1..Len(nodeStatus.conditions) :
        /\ nodeStatus.conditions[i].type = "Ready"
        /\ nodeStatus.conditions[i].status = ConditionTrue

\* Variant of the loop of getNodeSummary that counts every Ready=True
\* condition of a node.
RECURSIVE CountReadyConditions(_, _)
CountReadyConditions(items, n) ==
    IF n = 0 THEN 0
    ELSE CountReadyConditions(items, n - 1)
           + Cardinality({i \in 1..Len(items[n].conditions) :
                             /\ items[n].conditions[i].type = "Ready"
                             /\ items[n].conditions[i].status = ConditionTrue})

\* Number of ready nodes among the first n of items (the loop of getNodeSummary).
RECURSIVE CountReadyNodes(_, _)
CountReadyNodes(items, n) ==
    IF n = 0 THEN 0
    ELSE CountReadyNodes(items, n - 1) + (IF GetReadyStatusForNode(items[n]) THEN 1 ELSE 0)

\* Adding one ResourceList into an accumulated one, key by key.
AddResourceList(acc, rl) ==
    [n \in (DOMAIN acc) \cup (DOMAIN rl) |->
        (IF n \in DOMAIN acc THEN acc[n] ELSE 0) + (IF n \in DOMAIN rl THEN rl[n] ELSE 0)]

\* getClusterAllocatable over the first n nodes.
RECURSIVE GetClusterAllocatable(_, _)
GetClusterAllocatable(items, n) ==
    IF n = 0 THEN NoResources
    ELSE AddResourceList(GetClusterAllocatable(items, n - 1), items[n].allocatable)

\* requestResource.addResource: only cpu and memory are accumulated.
AddResource(r, rl) ==
    [MilliCPU |-> r.MilliCPU + (IF "cpu" \in DOMAIN rl THEN rl["cpu"] ELSE 0),
     Memory |-> r.Memory + (IF "memory" \in DOMAIN rl THEN rl["memory"] ELSE 0)]

\* calculateResource over the first n containers of a pod.
RECURSIVE CalculateResource(_, _)
CalculateResource(pod, n) ==
    IF n = 0 THEN [MilliCPU |-> 0, Memory |-> 0]
    ELSE AddResource(CalculateResource(pod, n - 1), pod.containers[n].requests)

\* The inner loop of getUsedResource: the pod's requests are added once for
\* every condition among the first n that is Ready=True.
RECURSIVE PodContribution(_, _)
PodContribution(pod, n) ==
    IF n = 0 THEN [MilliCPU |-> 0, Memory |-> 0]
    ELSE LET rest == PodContribution(pod, n - 1)
             c == pod.conditions[n]
             podRes == CalculateResource(pod, Len(pod.containers))
         IN  IF c.type = "Ready" /\ c.status = "True"
               THEN [MilliCPU |-> rest.MilliCPU + podRes.MilliCPU,
                     Memory |-> rest.Memory + podRes.Memory]
               ELSE rest

\* The outer loop of getUsedResource over the first n pods.
RECURSIVE SumRequests(_, _)
SumRequests(items, n) ==
    IF n = 0 THEN [MilliCPU |-> 0, Memory |-> 0]
    ELSE LET rest == SumRequests(items, n - 1)
             pod == items[n]
             add == IF pod.phase = "Running"
                      THEN PodContribution(pod, Len(pod.conditions))
                      ELSE [MilliCPU |-> 0, Memory |-> 0]
         IN  [MilliCPU |-> rest.MilliCPU + add.MilliCPU,
              Memory |-> rest.Memory + add.Memory]

\* getUsedResource.
GetUsedResource(podItems) ==
    LET total == SumRequests(podItems, Len(podItems))
    IN  [n \in {"cpu", "memory"} |-> IF n = "cpu" THEN total.MilliCPU ELSE total.Memory]

\* getNodeSummary once both lists have been received.
GetNodeSummary(nodeItems, podItems) ==
    [totalNum |-> Len(nodeItems),
     readyNum |-> CountReadyNodes(nodeItems, Len(nodeItems)),
     allocatable |-> GetClusterAllocatable(nodeItems, Len(nodeItems)),
     used |-> GetUsedResource(podItems)]

(***************************************************************************)
(* State.                                                                  *)
(***************************************************************************)
VARIABLES
    store,      \* control plane: the Cluster object stored under each name
    queue,      \* the cluster names the work queue hands to Reconcile
    pc,         \* where the reconciliation of each cluster stands
    cluster,    \* the Cluster object Reconcile loaded (its snapshot)
    sync,       \* locals of syncClusterStatus
    poll,       \* progress of wait.Poll: ticks elapsed, condition calls made
    result,     \* what Reconcile returned: Result{Requeue, RequeueAfter}, err
    probe,      \* the last getClusterHealthStatus run: answers, paths asked, outcome
    calls,      \* remote calls made by the reconciliation in progress, by kind
    trace,      \* per cluster: reconciliations started, status before, previous run
    now,        \* wall clock (metav1.Now)
    member      \* member cluster: the nodes and the pods its API server lists

vars == <<store, queue, pc, cluster, sync, poll, result, probe, calls, trace, now,
          member>>

CallKinds == {"client", "version", "discovery", "nodes", "pods", "update"}

NoCalls == [k \in CallKinds |-> 0]

NoCluster ==
    [exists |-> FALSE, deleting |-> FALSE, finalizer |-> FALSE,
     status |-> ZeroClusterStatus]

\* A Cluster that was just registered: no finalizer yet, empty status.
NewCluster ==
    [exists |-> TRUE, deleting |-> FALSE, finalizer |-> FALSE,
     status |-> ZeroClusterStatus]

\* Locals of syncClusterStatus on entry; timedOut is "err != nil" of line 114.
NoSync ==
    [online |-> FALSE, healthy |-> FALSE, timedOut |-> FALSE,
     clusterVersion |-> "", apiEnables |-> <<>>, nodeSummary |-> ZeroNodeSummary,
     currentClusterStatus |-> ZeroClusterStatus, currentTime |-> -1]

\* ticks: intervals elapsed while wait.Poll runs; calls: condition calls made.
NoPoll == [ticks |-> 0, calls |-> 0]

NoProbe == [readyz |-> NoResult, healthz |-> NoResult, asked |-> <<>>,
            online |-> FALSE, healthy |-> FALSE]

\* What one reconciliation observed of the member cluster.
Observation(s) ==
    [online |-> s.online, healthy |-> s.healthy, clusterVersion |-> s.clusterVersion,
     apiEnables |-> s.apiEnables, nodeSummary |-> s.nodeSummary]

\* rounds: runs of syncClusterStatus started; before: the stored status when
\* the reconciliation in progress started; prevOK, prevObs: whether the
\* previous reconciliation ran to a successful end, and what it observed.
NoTrace == [rounds |-> 0, before |-> ZeroClusterStatus,
            prevOK |-> FALSE, prevObs |-> Observation(NoSync)]

\* controllerruntime.Result together with the error returned.
Result(requeue, requeueAfter, err) ==
    [requeue |-> requeue, requeueAfter |-> requeueAfter, err |-> err]

NoReturn == Result(FALSE, 0, "none")

Init ==
    /\ queue = {"member1"}
    /\ store = [c \in Clusters |-> NewCluster]
    /\ pc = [c \in Clusters |-> "idle"]
    /\ cluster = [c \in Clusters |-> NoCluster]
    /\ sync = [c \in Clusters |-> NoSync]
    /\ poll = [c \in Clusters |-> NoPoll]
    /\ result = [c \in Clusters |-> NoReturn]
    /\ probe = [c \in Clusters |-> NoProbe]
    /\ calls = [c \in Clusters |-> NoCalls]
    /\ trace = [c \in Clusters |-> NoTrace]
    /\ now = 0
    /\ member \in [Clusters -> Members]

(***************************************************************************)
(* Helpers of the actions.                                                 *)
(***************************************************************************)
Called(c, kinds) ==
    [k \in CallKinds |-> IF k \in kinds THEN calls[c][k] + 1 ELSE calls[c][k]]

\* One run of getClusterHealthStatus with the answers drawn: the record
\* kept in probe (the /healthz answer is recorded only when it was asked).
ProbeRun(readyz, healthz) ==
    LET r == GetClusterHealthStatus(readyz, healthz)
    IN  [readyz |-> readyz,
         healthz |-> IF Len(r.asked) = 2 THEN healthz ELSE NoResult,
         asked |-> r.asked, online |-> r.online, healthy |-> r.healthy]

\* Variant of the closure that declares its own online and healthy (":=").
PollConditionShadowed(s, p) == s

\* The closure handed to wait.Poll assigns the outer online and healthy
\* (line 106).
PollCondition(s, p) == [s EXCEPT !.online = p.online, !.healthy = p.healthy]

\* Variant of lines 115-116 that starts from the old status instead of an
\* empty one.
UnreachableStatusMerged(old, s, t) ==
    [s EXCEPT !.timedOut = TRUE,
              !.currentTime = t,
              !.currentClusterStatus =
                  SetTransitionTime(old,
                      [old EXCEPT !.conditions = GenerateReadyCondition(FALSE, FALSE, t)])]

\* Lines 115-116: the candidate of the unreachable short-circuit.
UnreachableStatus(old, s, t) ==
    [s EXCEPT !.timedOut = TRUE,
              !.currentTime = t,
              !.currentClusterStatus =
                  SetTransitionTime(old,
                      [ZeroClusterStatus EXCEPT
                          !.conditions = GenerateReadyCondition(FALSE, FALSE, t)])]

\* Variant of lines 141-145 that keeps the stored condition when there is
\* one.
AssembleStatusKeepCondition(old, s, summary, t) ==
    [s EXCEPT !.nodeSummary = summary,
              !.currentTime = t,
              !.currentClusterStatus =
                  [conditions |-> IF Len(old.conditions) # 0
                                    THEN old.conditions
                                    ELSE GenerateReadyCondition(s.online, s.healthy, t),
                   kubernetesVersion |-> s.clusterVersion,
                   apiEnablements |-> s.apiEnables,
                   nodeSummary |-> summary]]

\* Lines 141-145: the candidate of the full pipeline.
AssembleStatus(old, s, summary, t) ==
    [s EXCEPT !.nodeSummary = summary,
              !.currentTime = t,
              !.currentClusterStatus =
                  [SetTransitionTime(old,
                      [ZeroClusterStatus EXCEPT
                          !.conditions = GenerateReadyCondition(s.online, s.healthy, t)])
                   EXCEPT !.kubernetesVersion = s.clusterVersion,
                          !.apiEnablements = s.apiEnables,
                          !.nodeSummary = summary]]

\* Variant of the error return that first saves what was gathered so far.
ReturnErrorAfterSave(c, err) ==
    /\ result' = [result EXCEPT ![c] = Result(TRUE, 0, err)]
    /\ pc' = [pc EXCEPT ![c] = "done"]
    /\ store' = [store EXCEPT ![c].status.conditions =
                     GenerateReadyCondition(sync[c].online, sync[c].healthy, now)]
    /\ UNCHANGED cluster

\* "return controllerruntime.Result{Requeue: true}, err" of syncClusterStatus:
\* the reconciliation ends with the error, nothing is written.
ReturnError(c, err) ==
    /\ result' = [result EXCEPT ![c] = Result(TRUE, 0, err)]
    /\ pc' = [pc EXCEPT ![c] = "done"]
    /\ UNCHANGED <<store, cluster>>

\* Variant of the finalizer test that lets every cluster through.
ContainsFinalizerSkipped(cl) == TRUE

\* controllerutil.ContainsFinalizer(cluster, util.ClusterControllerFinalizer).
ContainsFinalizer(cl) == cl.finalizer

\* Variant of the deletion test that never sees a deletion timestamp.
DeletionTimestampIgnored(cl) == FALSE

\* !cluster.DeletionTimestamp.IsZero() (line 70).
DeletionTimestampSet(cl) == cl.deleting

\* Variant of the poller without a timeout.
PollOpenForever(p) == TRUE

\* The poller of wait.Poll still has an interval to tick before the timeout.
PollOpen(p) == p.ticks < MaxTicks

(***************************************************************************)
(* Reconcile, lines 57-82: load the Cluster and apply the early exits.     *)
(***************************************************************************)
Reconcile(c) ==
    /\ pc[c] = "idle"
    /\ c \in queue
    /\ trace[c].rounds < MaxReconciles
    /\ \E getFails \in BOOLEAN :
        IF getFails
          THEN /\ cluster' = [cluster EXCEPT ![c] = NoCluster]
               /\ result' = [result EXCEPT ![c] = Result(TRUE, 0, "get")]
               /\ pc' = [pc EXCEPT ![c] = "done"]
          ELSE IF ~store[c].exists
            THEN /\ cluster' = [cluster EXCEPT ![c] = NoCluster]
                 /\ result' = [result EXCEPT ![c] = Result(FALSE, 0, "nil")]
                 /\ pc' = [pc EXCEPT ![c] = "done"]
            ELSE /\ cluster' = [cluster EXCEPT ![c] = store[c]]
                 /\ IF DeletionTimestampSet(store[c])
                      THEN /\ result' = [result EXCEPT ![c] = Result(FALSE, 0, "nil")]
                           /\ pc' = [pc EXCEPT ![c] = "done"]
                      ELSE IF ~ContainsFinalizer(store[c])
                        THEN /\ result' = [result EXCEPT ![c] = Result(TRUE, 0, "nil")]
                             /\ pc' = [pc EXCEPT ![c] = "done"]
                        ELSE /\ result' = [result EXCEPT ![c] = NoReturn]
                             /\ pc' = [pc EXCEPT ![c] = "client"]
    /\ trace' = [trace EXCEPT ![c].before = store[c].status,
                                ![c].rounds = IF pc'[c] = "client" THEN @ + 1 ELSE @]
    /\ UNCHANGED <<store, queue, sync, poll, probe, calls, now, member>>

(***************************************************************************)
(* syncClusterStatus, lines 91-95: build the client of the member cluster. *)
(***************************************************************************)
NewClusterClient(c) ==
    /\ pc[c] = "client"
    /\ calls' = [calls EXCEPT ![c] = Called(c, {"client"})]
    /\ \E ok \in BOOLEAN :
        IF ok
          THEN /\ pc' = [pc EXCEPT ![c] = "probe"]
               /\ UNCHANGED <<result, store, cluster>>
          ELSE ReturnError(c, "client")
    /\ UNCHANGED <<queue, sync, poll, probe, trace, now, member>>

(***************************************************************************)
(* Lines 100-104: the initial probe.                                       *)
(***************************************************************************)
InitialProbe(c) ==
    /\ pc[c] = "probe"
    /\ \E readyz \in member[c].answers, healthz \in member[c].answers :
        LET p == ProbeRun(readyz, healthz)
        IN  /\ probe' = [probe EXCEPT ![c] = p]
            /\ sync' = [sync EXCEPT ![c].online = p.online, ![c].healthy = p.healthy]
            /\ pc' = [pc EXCEPT ![c] = IF p.online THEN "version" ELSE "poll"]
    /\ UNCHANGED <<store, queue, cluster, poll, result, calls, trace, now, member>>

(***************************************************************************)
(* Lines 105-112: one interval of wait.Poll elapses.  A delivered tick     *)
(* runs the condition, which probes again and ends the poll when online.   *)
(***************************************************************************)
PollTick(c) ==
    /\ pc[c] = "poll"
    /\ PollOpen(poll[c])
    /\ \E delivered \in BOOLEAN :
        IF delivered
          THEN \E readyz \in member[c].answers, healthz \in member[c].answers :
                LET p == ProbeRun(readyz, healthz)
                IN  /\ probe' = [probe EXCEPT ![c] = p]
                            /\ sync' = [sync EXCEPT ![c] = PollCondition(@, p)]
                    /\ poll' = [poll EXCEPT ![c].calls = @ + 1,
                                             ![c].ticks = IF p.online THEN 0 ELSE @ + 1]
                    /\ pc' = [pc EXCEPT ![c] = IF p.online THEN "version" ELSE "poll"]
          ELSE /\ poll' = [poll EXCEPT ![c].ticks = @ + 1]
               /\ UNCHANGED <<probe, sync, pc>>
    /\ UNCHANGED <<store, queue, cluster, result, calls, trace, now, member>>

(***************************************************************************)
(* Lines 105-118: the timeout of wait.Poll closes the channel; the         *)
(* condition runs a last time, and if the cluster is still offline the     *)
(* poll returns ErrWaitTimeout and the unreachable status is built.        *)
(***************************************************************************)
PollTimeout(c) ==
    /\ pc[c] = "poll"
    /\ poll[c].ticks >= MaxTicks - 1
    /\ \E readyz \in member[c].answers, healthz \in member[c].answers :
        LET p == ProbeRun(readyz, healthz)
            s == PollCondition(sync[c], p)
        IN  /\ probe' = [probe EXCEPT ![c] = p]
            /\ poll' = [poll EXCEPT ![c].calls = @ + 1, ![c].ticks = 0]
            /\ IF p.online
                 THEN /\ sync' = [sync EXCEPT ![c] = s]
                      /\ pc' = [pc EXCEPT ![c] = "version"]
                 ELSE /\ sync' = [sync EXCEPT ![c] =
                                     UnreachableStatus(cluster[c].status, s, now)]
                      /\ pc' = [pc EXCEPT ![c] = "persist"]
    /\ UNCHANGED <<store, queue, cluster, result, calls, trace, now, member>>

(***************************************************************************)
(* Lines 121-125: getKubernetesVersion.                                    *)
(***************************************************************************)
SyncKubernetesVersion(c) ==
    /\ pc[c] = "version"
    /\ calls' = [calls EXCEPT ![c] = Called(c, {"version"})]
    /\ \/ \E v \in Versions :
            /\ sync' = [sync EXCEPT ![c].clusterVersion = v]
            /\ pc' = [pc EXCEPT ![c] = "discovery"]
            /\ UNCHANGED <<result, store, cluster>>
       \/ /\ ReturnError(c, "version")
          /\ UNCHANGED sync
    /\ UNCHANGED <<queue, poll, probe, trace, now, member>>

(***************************************************************************)
(* Lines 128-132: getAPIEnablements.                                       *)
(***************************************************************************)
SyncAPIEnablements(c) ==
    /\ pc[c] = "discovery"
    /\ calls' = [calls EXCEPT ![c] = Called(c, {"discovery"})]
    /\ \/ \E l \in APIResourceLists :
            /\ sync' = [sync EXCEPT ![c].apiEnables = GetAPIEnablements(l)]
            /\ pc' = [pc EXCEPT ![c] = "summary"]
            /\ UNCHANGED <<result, store, cluster>>
       \/ /\ ReturnError(c, "discovery")
          /\ UNCHANGED sync
    /\ UNCHANGED <<queue, poll, probe, trace, now, member>>

(***************************************************************************)
(* Lines 135-145: getNodeSummary (node list, then pod list), and on        *)
(* success the assembly of the candidate status.                           *)
(***************************************************************************)
SyncNodeSummary(c) ==
    /\ pc[c] = "summary"
    /\ \/ /\ calls' = [calls EXCEPT ![c] = Called(c, {"nodes", "pods"})]
          /\ sync' = [sync EXCEPT ![c] =
                         AssembleStatus(cluster[c].status, @,
                                        GetNodeSummary(member[c].nodes,
                                                       member[c].pods), now)]
          /\ pc' = [pc EXCEPT ![c] = "persist"]
          /\ UNCHANGED <<result, store, cluster>>
       \/ /\ calls' = [calls EXCEPT ![c] = Called(c, {"nodes"})]
          /\ ReturnError(c, "nodes")
          /\ UNCHANGED sync
       \/ /\ calls' = [calls EXCEPT ![c] = Called(c, {"nodes", "pods"})]
          /\ ReturnError(c, "pods")
          /\ UNCHANGED sync
    /\ UNCHANGED <<queue, poll, probe, trace, now, member>>

(***************************************************************************)
(* updateStatusIfNeeded, lines 150-163.  The update call fails when the    *)
(* object is gone and may fail for any other reason (conflict, network).   *)
(***************************************************************************)
\* Variant of the test of line 152 that always updates.
UpdateAlways(old, new) == TRUE

UpdateNeeded(old, new) == ~SemanticDeepEqual(old, new)

\* Variant of the update that writes the status under every name.
StatusUpdateAll(c, status) ==
    [d \in Clusters |->
        IF store[d].exists THEN [store[d] EXCEPT !.status = status] ELSE store[d]]

\* Variant of the update that merges like a patch: a field the new status
\* leaves empty keeps its stored value.
StatusUpdateMerged(c, status) ==
    [store EXCEPT
        ![c].status.conditions = status.conditions,
        ![c].status.kubernetesVersion =
            IF status.kubernetesVersion = "" THEN @ ELSE status.kubernetesVersion,
        ![c].status.apiEnablements =
            IF status.apiEnablements = <<>> THEN @ ELSE status.apiEnablements,
        ![c].status.nodeSummary =
            IF status.nodeSummary = ZeroNodeSummary THEN @ ELSE status.nodeSummary]

\* c.Client.Status().Update (line 155) succeeded: the store after it.
StatusUpdate(c, status) == [store EXCEPT ![c].status = status]

\* Variant of the final return that asks for an immediate requeue.
RequeueAtOnce == Result(TRUE, 0, "nil")

\* Line 162: Result{RequeueAfter: ClusterStatusUpdateFrequency.Duration}, nil.
RequeueAfterFrequency == Result(FALSE, ClusterStatusUpdateFrequency, "nil")

UpdateStatusIfNeeded(c) ==
    /\ pc[c] = "persist"
    /\ pc' = [pc EXCEPT ![c] = "done"]
    /\ IF UpdateNeeded(cluster[c].status, sync[c].currentClusterStatus)
         THEN /\ cluster' = [cluster EXCEPT ![c].status = sync[c].currentClusterStatus]
              /\ calls' = [calls EXCEPT ![c] = Called(c, {"update"})]
              /\ \E ok \in BOOLEAN :
                    IF ok /\ store[c].exists
                      THEN /\ store' = StatusUpdate(c, cluster'[c].status)
                           /\ result' = [result EXCEPT ![c] = RequeueAfterFrequency]
                      ELSE /\ result' = [result EXCEPT ![c] = Result(TRUE, 0, "update")]
                           /\ UNCHANGED store
         ELSE /\ result' = [result EXCEPT ![c] = RequeueAfterFrequency]
              /\ UNCHANGED <<store, cluster, calls>>
    /\ UNCHANGED <<queue, sync, poll, probe, trace, now, member>>

(***************************************************************************)
(* Reconcile has returned: its locals are gone, the work queue takes the   *)
(* result and will hand the key out again.                                 *)
(***************************************************************************)
Requeue(c) ==
    /\ pc[c] = "done"
    /\ pc' = [pc EXCEPT ![c] = "idle"]
    /\ LET ok == result[c].err = "nil"
                  /\ result[c].requeueAfter = ClusterStatusUpdateFrequency
       IN  trace' = [trace EXCEPT
                        ![c].prevOK = ok,
                        ![c].prevObs = Observation(IF ok THEN sync[c] ELSE NoSync)]
    /\ cluster' = [cluster EXCEPT ![c] = NoCluster]
    /\ sync' = [sync EXCEPT ![c] = NoSync]
    /\ poll' = [poll EXCEPT ![c] = NoPoll]
    /\ probe' = [probe EXCEPT ![c] = NoProbe]
    /\ calls' = [calls EXCEPT ![c] = NoCalls]
    /\ result' = [result EXCEPT ![c] = NoReturn]
    /\ UNCHANGED <<store, queue, now, member>>

(***************************************************************************)
(* Environment.                                                            *)
(***************************************************************************)
\* Wall-clock time passes.
Tick ==
    /\ now < MaxTime
    /\ now' = now + 1
    /\ UNCHANGED <<store, queue, pc, cluster, sync, poll, result, probe, calls, trace, member>>

\* The cluster controller attaches its finalizer (lines 74-75).
AddFinalizer(c) ==
    /\ store[c].exists /\ ~store[c].deleting /\ ~store[c].finalizer
    /\ store' = [store EXCEPT ![c].finalizer = TRUE]
    /\ UNCHANGED <<queue, pc, cluster, sync, poll, result, probe, calls, trace, now, member>>

\* The Cluster is marked for deletion (line 70).
MarkDeleted(c) ==
    /\ store[c].exists /\ ~store[c].deleting
    /\ store' = [store EXCEPT ![c].deleting = TRUE]
    /\ UNCHANGED <<queue, pc, cluster, sync, poll, result, probe, calls, trace, now, member>>

\* The Cluster object is removed once its deletion completed (lines 62-65).
RemoveCluster(c) ==
    /\ store[c].exists /\ store[c].deleting
    /\ store' = [store EXCEPT ![c] = NoCluster]
    /\ UNCHANGED <<queue, pc, cluster, sync, poll, result, probe, calls, trace, now, member>>

Next ==
    \/ \E c \in Clusters : Reconcile(c)
    \/ \E c \in Clusters : NewClusterClient(c)
    \/ \E c \in Clusters : InitialProbe(c)
    \/ \E c \in Clusters : PollTick(c)
    \/ \E c \in Clusters : PollTimeout(c)
    \/ \E c \in Clusters : SyncKubernetesVersion(c)
    \/ \E c \in Clusters : SyncAPIEnablements(c)
    \/ \E c \in Clusters : SyncNodeSummary(c)
    \/ \E c \in Clusters : UpdateStatusIfNeeded(c)
    \/ \E c \in Clusters : Requeue(c)
    \/ Tick
    \/ \E c \in queue : AddFinalizer(c)
    \/ \E c \in queue : MarkDeleted(c)
    \/ \E c \in queue : RemoveCluster(c)

Spec == Init /\ [][Next]_vars

(***************************************************************************)
(* Properties.                                                             *)
(***************************************************************************)
\* The candidate status of the reconciliation of c.
Candidate(c) == sync[c].currentClusterStatus

\* The reconciliation of c has assembled its candidate (it reached
\* updateStatusIfNeeded or is about to).
Assembled(c) == pc[c] \in {"persist", "done"} /\ Len(Candidate(c).conditions) > 0

\* The reconciliation of c went through updateStatusIfNeeded.
ReachedPersist(c) == pc[c] = "done" /\ Len(Candidate(c).conditions) > 0

\* Last-transition-time of the first condition of a status.
LTT(st) == st.conditions[1].lastTransitionTime

\* Errors of the calls that gather the status.
GatherErrors == {"client", "version", "discovery", "nodes", "pods"}

\* The stored status of c holds exactly the condition with this reason.
StoredReason(c, reason) ==
    /\ Len(store[c].status.conditions) = 1
    /\ store[c].status.conditions[1].reason = reason

---------------------------------------------------------------------------
\* C1 (idempotence): when the previous reconciliation of a cluster ran to a
\* successful end and this one observes the same probe outcome, version,
\* API enablements and node summary, this one makes no status update call,
\* whatever the wall-clock time at which it generates its condition.
C1_Idempotent ==
    \A c \in Clusters :
        (/\ pc[c] = "done"
         /\ trace[c].prevOK
         /\ Observation(sync[c]) = trace[c].prevObs)
        => calls[c]["update"] = 0

\* A second identical reconciliation that generated its condition at a
\* later time than the stored transition time, and wrote nothing.
C1_Witness ==
    \E c \in Clusters :
        /\ ReachedPersist(c)
        /\ trace[c].prevOK
        /\ Observation(sync[c]) = trace[c].prevObs
        /\ store[c].exists
        /\ store[c].status = Candidate(c)
        /\ sync[c].currentTime > LTT(store[c].status)
        /\ sync[c].online
        /\ calls[c]["update"] = 0
        /\ result[c] = Result(FALSE, ClusterStatusUpdateFrequency, "nil")

---------------------------------------------------------------------------
\* C2 (monotonic transition timestamp), as amended: in a reconciliation
\* whose candidate has the classification of the stored status, and the
\* stored status holds a condition, the stored last-transition-time does
\* not change; in a reconciliation whose candidate flips the classification
\* and whose update call succeeds, the stored last-transition-time changes
\* through exactly one update call, to the time generated in that
\* reconciliation; when the update call fails the stored status is as before.
C2_TransitionTime ==
    \A c \in Clusters :
        (ReachedPersist(c) /\ store[c].exists) =>
            LET b == trace[c].before
                n == Candidate(c)
                s == store[c].status
            IN  /\ calls[c]["update"] <= 1
                /\ (Len(b.conditions) > 0 /\ IsClusterReady(b) = IsClusterReady(n))
                     => (Len(s.conditions) > 0 /\ LTT(s) = LTT(b))
                /\ (IsClusterReady(b) # IsClusterReady(n) /\ result[c].err = "nil")
                     => (calls[c]["update"] = 1 /\ LTT(s) = sync[c].currentTime)
                /\ (result[c].err = "update") => s = b

\* A reconciliation that flipped a stored not-ready condition to ready and
\* stored its own, later, time.
C2_Witness ==
    \E c \in Clusters :
        /\ ReachedPersist(c) /\ store[c].exists
        /\ Len(trace[c].before.conditions) > 0
        /\ ~IsClusterReady(trace[c].before)
        /\ IsClusterReady(Candidate(c))
        /\ result[c].err = "nil"
        /\ LTT(trace[c].before) < sync[c].currentTime
        /\ LTT(store[c].status) = sync[c].currentTime

\* C2 as stated: equal classification keeps the stored timestamp, and the
\* first reconciliation whose candidate flips the classification changes it,
\* exactly once, to that reconciliation's time.
C2_Original ==
    \A c \in Clusters :
        (ReachedPersist(c) /\ store[c].exists) =>
            LET b == trace[c].before
                n == Candidate(c)
                s == store[c].status
            IN  /\ (Len(b.conditions) > 0 /\ IsClusterReady(b) = IsClusterReady(n))
                     => (Len(s.conditions) > 0 /\ LTT(s) = LTT(b))
                /\ (IsClusterReady(b) # IsClusterReady(n))
                     => /\ calls[c]["update"] = 1
                        /\ Len(s.conditions) > 0
                        /\ LTT(s) = sync[c].currentTime

---------------------------------------------------------------------------
\* C3 (transient unreachability): the poll goes on only while the cluster is
\* offline; once a re-probe reports online the poll has ended without
\* timeout, online and healthy are that re-probe's, the pipeline goes on to
\* the version, discovery and summary calls, the candidate carries the
\* Ready or NotReady condition of that pair, and no ClusterNotReachable
\* condition is written.
C3_TransientUnreachable ==
    \A c \in Clusters :
        /\ pc[c] = "poll" => (~sync[c].online /\ ~probe[c].online)
        /\ (poll[c].calls > 0 /\ probe[c].online) =>
            /\ pc[c] \in {"version", "discovery", "summary", "persist", "done"}
            /\ ~sync[c].timedOut
            /\ sync[c].online = probe[c].online
            /\ sync[c].healthy = probe[c].healthy
            /\ Assembled(c) =>
                /\ Len(Candidate(c).conditions) = 1
                /\ Candidate(c).conditions[1].reason =
                       (IF probe[c].healthy THEN clusterReady ELSE clusterNotReady)
                /\ Candidate(c).conditions[1].status =
                       (IF probe[c].healthy THEN ConditionTrue ELSE ConditionFalse)
                /\ Candidate(c).kubernetesVersion = sync[c].clusterVersion
                /\ Candidate(c).kubernetesVersion \in Versions
                /\ Candidate(c).apiEnablements = sync[c].apiEnables
                /\ Candidate(c).nodeSummary = sync[c].nodeSummary
                /\ calls[c]["version"] = 1 /\ calls[c]["discovery"] = 1
                /\ calls[c]["nodes"] = 1 /\ calls[c]["pods"] = 1
            /\ (pc[c] = "done" /\ calls[c]["update"] > 0 /\ result[c].err = "nil"
                    /\ store[c].exists)
                 => ~StoredReason(c, clusterNotReachableReason)

\* The initial probe and a first re-probe were offline, a later re-probe was
\* online but unhealthy, and ClusterNotReady was written.
C3_Witness ==
    \E c \in Clusters :
        /\ pc[c] = "done"
        /\ poll[c].calls >= 2
        /\ probe[c].online /\ ~probe[c].healthy
        /\ calls[c]["update"] = 1
        /\ result[c].err = "nil"
        /\ StoredReason(c, clusterNotReady)

---------------------------------------------------------------------------
\* C4 (bounded retry), as amended: the poll makes at most one re-probe per
\* interval of the timeout plus one when the timeout closes it, and can
\* always take its next step; a reconciliation whose every probe was offline
\* ends, after at least one re-probe, and when its update call did not fail
\* the stored status carries the ClusterNotReachable condition; when the
\* update call failed the stored status is as before.
C4_BoundedRetry ==
    \A c \in Clusters :
        /\ poll[c].ticks <= MaxTicks
        /\ poll[c].calls <= MaxPollCalls
        /\ pc[c] = "poll" => ENABLED (PollTick(c) \/ PollTimeout(c))
        /\ sync[c].timedOut =>
            /\ pc[c] \in {"persist", "done"}
            /\ poll[c].calls \in 1..MaxPollCalls
            /\ (pc[c] = "done" /\ store[c].exists /\ result[c].err = "nil")
                 => (StoredReason(c, clusterNotReachableReason)
                     /\ store[c].status = Candidate(c))
            /\ (pc[c] = "done" /\ store[c].exists /\ result[c].err # "nil")
                 => (result[c].err = "update" /\ store[c].status = trace[c].before)

\* A cluster stored as ready stayed offline through the initial probe and
\* the largest number of re-probes, and is now stored as unreachable.
C4_Witness ==
    \E c \in Clusters :
        /\ pc[c] = "done"
        /\ sync[c].timedOut
        /\ poll[c].calls = MaxPollCalls
        /\ IsClusterReady(trace[c].before)
        /\ calls[c]["update"] = 1
        /\ StoredReason(c, clusterNotReachableReason)

\* C4 as stated: after timeout/interval re-probes at most, the always-offline
\* reconciliation ends with ClusterNotReachable in the stored status.
C4_Original ==
    \A c \in Clusters :
        (pc[c] = "done" /\ sync[c].timedOut /\ store[c].exists) =>
            /\ poll[c].calls <= MaxTicks
            /\ StoredReason(c, clusterNotReachableReason)

---------------------------------------------------------------------------
\* C5 (no partial status): a reconciliation that returned the error of the
\* client construction, the version lookup, the discovery, the node list or
\* the pod list made no update call and left the stored status as it was
\* when the reconciliation started.
C5_NoPartialStatus ==
    \A c \in Clusters :
        (pc[c] = "done" /\ result[c].err \in GatherErrors) =>
            /\ result[c] = Result(TRUE, 0, result[c].err)
            /\ calls[c]["update"] = 0
            /\ Len(Candidate(c).conditions) = 0
            /\ store[c].exists => store[c].status = trace[c].before

\* The pod list failed after a version different from the stored one had
\* been fetched; the stored status still holds the old version.
C5_Witness ==
    \E c \in Clusters :
        /\ pc[c] = "done"
        /\ result[c].err = "pods"
        /\ store[c].exists
        /\ store[c].status.kubernetesVersion \in Versions
        /\ sync[c].clusterVersion # store[c].status.kubernetesVersion
        /\ store[c].status = trace[c].before

---------------------------------------------------------------------------
\* C6 (update discipline): a reconciliation makes at most one update call,
\* and makes it only from updateStatusIfNeeded with an assembled candidate
\* that is not semantically equal to the status of the loaded snapshot.
C6_UpdateDiscipline ==
    \A c \in Clusters :
        /\ calls[c]["update"] <= 1
        /\ calls[c]["update"] = 1 =>
            /\ pc[c] = "done"
            /\ Len(Candidate(c).conditions) = 1
            /\ ~SemanticDeepEqual(trace[c].before, Candidate(c))
            /\ cluster[c].status = Candidate(c)

\* An update call that replaced a stored status differing from the
\* candidate in the version only.
C6_Witness ==
    \E c \in Clusters :
        /\ pc[c] = "done"
        /\ calls[c]["update"] = 1
        /\ result[c].err = "nil"
        /\ trace[c].before.conditions = Candidate(c).conditions
        /\ trace[c].before.kubernetesVersion # Candidate(c).kubernetesVersion
        /\ store[c].status = Candidate(c)

---------------------------------------------------------------------------
\* C7 (fallback): in every probe /healthz is requested exactly when /readyz
\* answered 404, and then the answer of /healthz alone gives the outcome:
\* offline when it failed, online when it did not, healthy when it is 200.
C7_Fallback ==
    \A c \in Clusters :
        probe[c] # NoProbe =>
            /\ probe[c].asked[1] = "/readyz"
            /\ (Len(probe[c].asked) = 2) <=> (probe[c].readyz.code = StatusNotFound)
            /\ Len(probe[c].asked) = 2 =>
                /\ probe[c].asked[2] = "/healthz"
                /\ probe[c].online <=> ~probe[c].healthz.err
                /\ probe[c].healthy <=>
                       (~probe[c].healthz.err /\ probe[c].healthz.code = StatusOK)

\* /readyz answered 404 and /healthz answered 200: online and healthy.
C7_Witness ==
    \E c \in Clusters :
        /\ probe[c].readyz.code = StatusNotFound
        /\ probe[c].asked = <<"/readyz", "/healthz">>
        /\ probe[c].healthz.code = StatusOK
        /\ probe[c].online /\ probe[c].healthy

---------------------------------------------------------------------------
\* C8 (unhealthy but reachable): whenever the consulted endpoint answered
\* with a status other than 200 the probe gives online and not healthy, and
\* it gives offline only when no response was received at all.
C8_ReachableUnhealthy ==
    \A c \in Clusters :
        probe[c] # NoProbe =>
            LET consulted == IF Len(probe[c].asked) = 2
                               THEN probe[c].healthz ELSE probe[c].readyz
            IN  /\ (consulted.code # 0 /\ consulted.code # StatusOK)
                     => (probe[c].online /\ ~probe[c].healthy)
                /\ ~probe[c].online => consulted.code = 0

---------------------------------------------------------------------------
\* C9 (unreachable short-circuit): after the poll timed out no version,
\* discovery, node-list or pod-list call is made, the candidate holds the
\* ClusterNotReachable condition and nothing else, it goes through
\* updateStatusIfNeeded (an update call exactly when it differs from the
\* loaded status), and Reconcile returns RequeueAfter the configured
\* frequency without error unless the update call failed.
C9_UnreachableShortCircuit ==
    \A c \in Clusters :
        sync[c].timedOut =>
            /\ pc[c] \in {"persist", "done"}
            /\ ~sync[c].online
            /\ calls[c]["version"] = 0 /\ calls[c]["discovery"] = 0
            /\ calls[c]["nodes"] = 0 /\ calls[c]["pods"] = 0
            /\ \E t \in 0..sync[c].currentTime :
                 Candidate(c) =
                     [ZeroClusterStatus EXCEPT !.conditions =
                         << [type |-> ClusterConditionReady,
                             status |-> ConditionFalse,
                             reason |-> clusterNotReachableReason,
                             message |-> clusterNotReachableMsg,
                             lastTransitionTime |-> t] >>]
            /\ pc[c] = "done" =>
                /\ (calls[c]["update"] = 1)
                       <=> ~SemanticDeepEqual(trace[c].before, Candidate(c))
                /\ \/ result[c] = Result(FALSE, ClusterStatusUpdateFrequency, "nil")
                   \/ (result[c] = Result(TRUE, 0, "update") /\ calls[c]["update"] = 1)

\* The poll timed out for a cluster whose stored status held a version; the
\* unreachable status was written and Reconcile returned without error.
C9_Witness ==
    \E c \in Clusters :
        /\ pc[c] = "done"
        /\ sync[c].timedOut
        /\ trace[c].before.kubernetesVersion \in Versions
        /\ calls[c]["update"] = 1
        /\ result[c] = Result(FALSE, ClusterStatusUpdateFrequency, "nil")
        /\ store[c].status = Candidate(c)

---------------------------------------------------------------------------
\* C10 (finalizer ordering): a Reconcile that loaded a cluster not marked
\* for deletion and without the finalizer has returned Requeue without
\* error, built no client, probed nothing and called nothing, and the stored
\* status is as it was; an update call is only ever made for a cluster whose
\* loaded snapshot carried the finalizer.
C10_FinalizerOrdering ==
    \A c \in Clusters :
        /\ (pc[c] # "idle" /\ cluster[c].exists /\ ~cluster[c].deleting
                /\ ~cluster[c].finalizer) =>
            /\ pc[c] = "done"
            /\ result[c] = Result(TRUE, 0, "nil")
            /\ calls[c] = NoCalls
            /\ probe[c] = NoProbe
            /\ poll[c] = NoPoll
            /\ store[c].exists => store[c].status = trace[c].before
        /\ (calls[c]["update"] > 0 \/ calls[c]["client"] > 0 \/ probe[c] # NoProbe)
             => (cluster[c].exists /\ cluster[c].finalizer /\ ~cluster[c].deleting)

\* Reconcile returned Requeue for a cluster loaded without the finalizer,
\* although the finalizer has been attached since.
C10_Witness ==
    \E c \in Clusters :
        /\ pc[c] = "done"
        /\ cluster[c].exists /\ ~cluster[c].deleting /\ ~cluster[c].finalizer
        /\ store[c].finalizer
        /\ result[c] = Result(TRUE, 0, "nil")

-----------------------------------------------------------------------------
(***************************************************************************)
(* C11.  No-op exits.  A reconciliation whose load finds no Cluster, or    *)
(* finds one marked for deletion (with or without the finalizer), returns  *)
(* success with requeue = false and requeueAfter = 0, writes nothing and   *)
(* makes no call to the member cluster: the step that loads the object     *)
(* ends the reconciliation and leaves the store alone, and the returned    *)
(* reconciliation has made no call and no probe.  A load that fails for    *)
(* any other reason returns requeue = true with that error.                *)
(***************************************************************************)
C11_NoOpExits ==
    /\ [][\A c \in Clusters :
            (pc[c] = "idle" /\ pc'[c] # "idle") =>
                /\ (result'[c].err = "get") =>
                      /\ pc'[c] = "done"
                      /\ result'[c].requeue /\ result'[c].requeueAfter = 0
                      /\ store' = store
                /\ (result'[c].err # "get" /\ (~store[c].exists \/ store[c].deleting)) =>
                      /\ pc'[c] = "done"
                      /\ ~result'[c].requeue /\ result'[c].requeueAfter = 0
                      /\ result'[c].err = "nil"
                      /\ store' = store
                      /\ calls'[c] = NoCalls /\ probe'[c] = NoProbe]_vars
    /\ [](\A c \in Clusters :
            (pc[c] = "done" /\ (~cluster[c].exists \/ cluster[c].deleting)) =>
                /\ calls[c] = NoCalls /\ probe[c] = NoProbe /\ poll[c] = NoPoll
                /\ result[c].err \in {"nil", "get"}
                /\ store[c].exists => store[c].status = trace[c].before)

\* A Cluster that carries the finalizer and a stored status was marked for
\* deletion, and its reconciliation returned without a call or a write.
C11_Witness ==
    \E c \in Clusters :
        /\ pc[c] = "done"
        /\ cluster[c].exists /\ cluster[c].deleting /\ cluster[c].finalizer
        /\ Len(cluster[c].status.conditions) > 0
        /\ result[c] = Result(FALSE, 0, "nil")
        /\ calls[c] = NoCalls
        /\ store[c].exists /\ store[c].status = trace[c].before

-----------------------------------------------------------------------------
(***************************************************************************)
(* C12.  Outcome mapping.  A reconciliation that went through the          *)
(* conditional persist and whose write did not fail returns no error, no   *)
(* immediate requeue and requeueAfter = ClusterStatusUpdateFrequency, with *)
(* or without a write; a reconciliation that returns an error returns it   *)
(* with requeue = true and no requeueAfter; requeueAfter is set by no      *)
(* other return.                                                           *)
(***************************************************************************)
C12_OutcomeMapping ==
    \A c \in Clusters :
        pc[c] = "done" =>
            /\ (ReachedPersist(c) /\ result[c].err # "update") =>
                  /\ result[c].err = "nil"
                  /\ ~result[c].requeue
                  /\ result[c].requeueAfter = ClusterStatusUpdateFrequency
            /\ (result[c].err # "nil") =>
                  /\ result[c].err \in GatherErrors \cup {"get", "update"}
                  /\ result[c].requeue
                  /\ result[c].requeueAfter = 0
            /\ (result[c].requeueAfter # 0) =>
                  /\ ReachedPersist(c)
                  /\ result[c].requeueAfter = ClusterStatusUpdateFrequency

\* A reconciliation found the stored status equal to its candidate, wrote
\* nothing and returned the update frequency.
C12_Witness ==
    \E c \in Clusters :
        /\ ReachedPersist(c)
        /\ calls[c]["update"] = 0
        /\ Len(trace[c].before.conditions) > 0
        /\ result[c].err = "nil" /\ ~result[c].requeue
        /\ result[c].requeueAfter = ClusterStatusUpdateFrequency

-----------------------------------------------------------------------------
\* The row of the condition table for a final (online, healthy) pair:
\* status, reason, message.
ReadyRow(online, healthy) ==
    IF ~online
      THEN <<ConditionFalse, clusterNotReachableReason, clusterNotReachableMsg>>
      ELSE IF ~healthy
        THEN <<ConditionFalse, clusterNotReady, clusterUnhealthy>>
        ELSE <<ConditionTrue, clusterReady, clusterHealthy>>

\* Status, reason and message of a condition.
RowOf(cond) == <<cond.status, cond.reason, cond.message>>

(***************************************************************************)
(* C13.  Single-condition status.  The candidate of every reconciliation,  *)
(* which is the status handed to the update call whenever one is issued,   *)
(* holds exactly one condition, of type Ready, whose status, reason and    *)
(* message are the table row of the final (online, healthy) pair; and the  *)
(* stored status, which starts without a condition, holds at most one      *)
(* condition in every reachable state, carrying one of the three rows.     *)
(***************************************************************************)
C13_SingleCondition ==
    \A c \in Clusters :
        /\ Len(store[c].status.conditions) <= 1
        /\ \A i \in 1..Len(store[c].status.conditions) :
              /\ store[c].status.conditions[i].type = ClusterConditionReady
              /\ RowOf(store[c].status.conditions[i])
                    \in {ReadyRow(o, h) : o, h \in BOOLEAN}
        /\ pc[c] \in {"persist", "done"} /\ sync[c].currentClusterStatus # ZeroClusterStatus =>
              /\ Len(Candidate(c).conditions) = 1
              /\ Candidate(c).conditions[1].type = ClusterConditionReady
              /\ RowOf(Candidate(c).conditions[1])
                    = ReadyRow(sync[c].online, sync[c].healthy)
        /\ calls[c]["update"] = 1 => cluster[c].status = Candidate(c)
        /\ (pc[c] = "done" /\ calls[c]["update"] = 1 /\ result[c].err = "nil"
              /\ store[c].exists) => store[c].status = Candidate(c)

\* A write stored the single condition of a reachable but unhealthy cluster
\* over a stored status that held the Ready row.
C13_Witness ==
    \E c \in Clusters :
        /\ pc[c] = "done" /\ calls[c]["update"] = 1 /\ result[c].err = "nil"
        /\ sync[c].online /\ ~sync[c].healthy
        /\ Len(trace[c].before.conditions) = 1
        /\ trace[c].before.conditions[1].reason = clusterReady
        /\ store[c].exists
        /\ Len(store[c].status.conditions) = 1
        /\ RowOf(store[c].status.conditions[1]) = ReadyRow(TRUE, FALSE)

-----------------------------------------------------------------------------
\* The stored status had the one reason and the candidate has the other.
SubStateChange(c, from, to) ==
    /\ ReachedPersist(c)
    /\ Len(trace[c].before.conditions) = 1
    /\ trace[c].before.conditions[1].reason = from
    /\ Candidate(c).conditions[1].reason = to

(***************************************************************************)
(* C14.  Sub-state change keeps the timestamp.  When the stored condition  *)
(* is ClusterNotReachable and the candidate is ClusterNotReady, or the     *)
(* reverse, the reconciliation issues the update with the new reason and   *)
(* message and with the stored last-transition-time copied unchanged, and  *)
(* when the update call succeeds that status is the stored one.            *)
(***************************************************************************)
C14_SubStateKeepsTimestamp ==
    \A c \in Clusters :
        \A from, to \in {clusterNotReachableReason, clusterNotReady} :
            (from # to /\ SubStateChange(c, from, to)) =>
                /\ calls[c]["update"] = 1
                /\ cluster[c].status = Candidate(c)
                /\ Candidate(c).conditions[1].message =
                      (IF to = clusterNotReady THEN clusterUnhealthy
                                               ELSE clusterNotReachableMsg)
                /\ Candidate(c).conditions[1].status = ConditionFalse
                /\ LTT(Candidate(c)) = LTT(trace[c].before)
                /\ (result[c].err = "nil" /\ store[c].exists) =>
                      /\ store[c].status = Candidate(c)
                      /\ store[c].status.conditions[1].reason = to
                      /\ LTT(store[c].status) = LTT(trace[c].before)

\* A cluster stored as ClusterNotReachable at an earlier time came back
\* unhealthy, and the write kept the earlier timestamp.
C14_Witness ==
    \E c \in Clusters :
        /\ SubStateChange(c, clusterNotReachableReason, clusterNotReady)
        /\ result[c].err = "nil" /\ store[c].exists
        /\ sync[c].currentTime > LTT(trace[c].before)
        /\ store[c].status.conditions[1].reason = clusterNotReady
        /\ store[c].status.conditions[1].message = clusterUnhealthy
        /\ LTT(store[c].status) = LTT(trace[c].before)

-----------------------------------------------------------------------------
(***************************************************************************)
(* The aggregation of getNodeSummary on its own: the reconciliation of a   *)
(* reachable, healthy cluster stands before getNodeSummary (line 135), and *)
(* the member cluster holds any list of at most MaxNodes nodes or of at    *)
(* most MaxPods pods, condition lists with repeated and reordered entries  *)
(* included.                                                               *)
(***************************************************************************)
NodeConditionLists ==
    { <<>>,
      << [type |-> "Ready", status |-> "True"] >>,
      << [type |-> "Ready", status |-> "False"] >>,
      << [type |-> "MemoryPressure", status |-> "True"] >>,
      << [type |-> "MemoryPressure", status |-> "False"],
         [type |-> "Ready", status |-> "True"] >>,
      << [type |-> "Ready", status |-> "False"],
         [type |-> "Ready", status |-> "True"] >>,
      << [type |-> "Ready", status |-> "True"],
         [type |-> "Ready", status |-> "True"] >> }

AggNodes ==
    {[conditions |-> cl, allocatable |-> NodeReady.allocatable] :
        cl \in NodeConditionLists}

AggNodeLists == UNION {[1..k -> AggNodes] : k \in 0..MaxNodes}

PodConditionLists ==
    { <<>>,
      << [type |-> "Ready", status |-> "True"] >>,
      << [type |-> "Ready", status |-> "False"] >>,
      << [type |-> "Initialized", status |-> "True"],
         [type |-> "Ready", status |-> "True"] >>,
      << [type |-> "Ready", status |-> "True"],
         [type |-> "Initialized", status |-> "True"] >>,
      << [type |-> "Ready", status |-> "True"],
         [type |-> "Ready", status |-> "True"] >> }

AggPods ==
    {[phase |-> ph, conditions |-> cl, containers |-> cs] :
        ph \in {"Running", "Pending"},
        cl \in PodConditionLists,
        cs \in {<<ContainerA>>, <<ContainerB, ContainerC>>}}

AggPodLists == UNION {[1..k -> AggPods] : k \in 0..MaxPods}

AggMembers ==
    {[nodes |-> n, pods |-> p, answers |-> ProbeResults] :
        n \in AggNodeLists, p \in PodLists}
        \cup {[nodes |-> n, pods |-> p, answers |-> ProbeResults] :
                 n \in NodeLists, p \in AggPodLists}

AggInit ==
    /\ queue = {"member1"}
    /\ store = [c \in Clusters |-> [NewCluster EXCEPT !.finalizer = TRUE]]
    /\ pc = [c \in Clusters |-> IF c \in queue THEN "summary" ELSE "idle"]
    /\ cluster = [c \in Clusters |-> IF c \in queue THEN store[c] ELSE NoCluster]
    /\ \E v \in Versions, l \in APIResourceLists :
          sync = [c \in Clusters |->
                     IF c \in queue
                       THEN [NoSync EXCEPT !.online = TRUE, !.healthy = TRUE,
                                           !.clusterVersion = v,
                                           !.apiEnables = GetAPIEnablements(l)]
                       ELSE NoSync]
    /\ poll = [c \in Clusters |-> NoPoll]
    /\ result = [c \in Clusters |-> NoReturn]
    /\ probe = [c \in Clusters |->
                   IF c \in queue
                     THEN ProbeRun([code |-> StatusOK, err |-> FALSE], NoResult)
                     ELSE NoProbe]
    /\ calls = [c \in Clusters |->
                   IF c \in queue
                     THEN [k \in CallKinds |->
                              IF k \in {"client", "version", "discovery"} THEN 1 ELSE 0]
                     ELSE NoCalls]
    /\ trace = [c \in Clusters |->
                   IF c \in queue THEN [NoTrace EXCEPT !.rounds = 1] ELSE NoTrace]
    /\ now = 0
    /\ \E m \in AggMembers, rest \in Members :
          member = [c \in Clusters |-> IF c \in queue THEN m ELSE rest]

AggNext ==
    \/ \E c \in Clusters : SyncNodeSummary(c)
    \/ \E c \in Clusters : UpdateStatusIfNeeded(c)

AggSpec == AggInit /\ [][AggNext]_vars

\* The reconciliation of c received both lists and summarised them.
Summarised(c) == Assembled(c) /\ ~sync[c].timedOut

\* A pod counts toward the used resources.
QualifyingPod(pod) ==
    /\ pod.phase = "Running"
    /\ \E i \in 1..Len(pod.conditions) :
          pod.conditions[i].type = "Ready" /\ pod.conditions[i].status = "True"

\* What the first n containers of a pod request of one resource.
RECURSIVE RequestsOf(_, _, _)
RequestsOf(pod, name, n) ==
    IF n = 0 THEN 0
    ELSE RequestsOf(pod, name, n - 1)
           + (IF name \in DOMAIN pod.containers[n].requests
                THEN pod.containers[n].requests[name] ELSE 0)

\* What the qualifying pods among the first n request of one resource,
\* each pod once.
RECURSIVE UsedBy(_, _, _)
UsedBy(items, name, n) ==
    IF n = 0 THEN 0
    ELSE UsedBy(items, name, n - 1)
           + (IF QualifyingPod(items[n])
                THEN RequestsOf(items[n], name, Len(items[n].containers)) ELSE 0)

(***************************************************************************)
(* C15.  Used-resource aggregation.  The used CPU and memory of a node     *)
(* summary are the sums, over exactly the pods that are Running and hold a *)
(* Ready=True condition, of the requests of the pod's containers, every    *)
(* such pod counted once whatever its condition list looks like.           *)
(***************************************************************************)
C15_UsedAggregation ==
    \A c \in Clusters :
        Summarised(c) =>
            LET pods == member[c].pods
                used == sync[c].nodeSummary.used
            IN  /\ DOMAIN used = {"cpu", "memory"}
                /\ used["cpu"] = UsedBy(pods, "cpu", Len(pods))
                /\ used["memory"] = UsedBy(pods, "memory", Len(pods))

\* The nodes of c that hold at least one Ready=True condition.
ReadyNodes(c) ==
    {i \in 1..Len(member[c].nodes) :
        \E j \in 1..Len(member[c].nodes[i].conditions) :
            /\ member[c].nodes[i].conditions[j].type = "Ready"
            /\ member[c].nodes[i].conditions[j].status = "True"}

(***************************************************************************)
(* C16.  Node readiness counting.  totalNum is the number of nodes listed, *)
(* readyNum the number of nodes holding at least one Ready=True condition, *)
(* each node counted at most once, so 0 <= readyNum <= totalNum; the       *)
(* candidate status carries that summary.                                  *)
(***************************************************************************)
C16_NodeReadiness ==
    \A c \in Clusters :
        Summarised(c) =>
            LET ns == sync[c].nodeSummary
            IN  /\ ns.totalNum = Len(member[c].nodes)
                /\ ns.readyNum = Cardinality(ReadyNodes(c))
                /\ 0 <= ns.readyNum /\ ns.readyNum <= ns.totalNum
                /\ Candidate(c).nodeSummary = ns

\* Node A is Ready (its Ready=True condition listed twice), node B has no
\* Ready condition: one ready node of two.
C16_Witness ==
    \E c \in Clusters :
        /\ Summarised(c)
        /\ Len(member[c].nodes) = 2
        /\ Len(member[c].nodes[1].conditions) = 2
        /\ \A j \in 1..2 :
              /\ member[c].nodes[1].conditions[j].type = "Ready"
              /\ member[c].nodes[1].conditions[j].status = "True"
        /\ \A j \in 1..Len(member[c].nodes[2].conditions) :
              member[c].nodes[2].conditions[j].type # "Ready"
        /\ sync[c].nodeSummary.readyNum = 1
        /\ sync[c].nodeSummary.totalNum = 2

-----------------------------------------------------------------------------
(***************************************************************************)
(* Two clusters reconciled concurrently: both carry the finalizer, both    *)
(* keys are in the work queue, and each has one reconciliation left, whose *)
(* steps interleave freely with the other's and with the clock.  The two   *)
(* member clusters differ in what their health endpoints answer.           *)
(***************************************************************************)
\* member1 always answers, with 200 or with 202; member2 answers 200 or
\* does not answer at all.
MultiAnswers ==
    [c \in Clusters |->
        IF c = "member1"
          THEN {[code |-> StatusOK, err |-> FALSE], [code |-> 202, err |-> FALSE]}
          ELSE {[code |-> StatusOK, err |-> FALSE], [code |-> 0, err |-> TRUE]}]

MultiInit ==
    /\ queue = Clusters
    /\ store = [c \in Clusters |-> [NewCluster EXCEPT !.finalizer = TRUE]]
    /\ pc = [c \in Clusters |-> "idle"]
    /\ cluster = [c \in Clusters |-> NoCluster]
    /\ sync = [c \in Clusters |-> NoSync]
    /\ poll = [c \in Clusters |-> NoPoll]
    /\ result = [c \in Clusters |-> NoReturn]
    /\ probe = [c \in Clusters |-> NoProbe]
    /\ calls = [c \in Clusters |-> NoCalls]
    /\ trace = [c \in Clusters |-> [NoTrace EXCEPT !.rounds = MaxReconciles - 1]]
    /\ now = 0
    /\ \E m \in Members :
          member = [c \in Clusters |-> [m EXCEPT !.answers = MultiAnswers[c]]]

MultiNext ==
    \/ \E c \in Clusters : Reconcile(c)
    \/ \E c \in Clusters : NewClusterClient(c)
    \/ \E c \in Clusters : InitialProbe(c)
    \/ \E c \in Clusters : PollTick(c)
    \/ \E c \in Clusters : PollTimeout(c)
    \/ \E c \in Clusters : SyncKubernetesVersion(c)
    \/ \E c \in Clusters : SyncAPIEnablements(c)
    \/ \E c \in Clusters : SyncNodeSummary(c)
    \/ \E c \in Clusters : UpdateStatusIfNeeded(c)
    \/ Tick

MultiSpec == MultiInit /\ [][MultiNext]_vars

\* Everything the model keeps for one cluster.
StateOf(c) ==
    <<store[c], pc[c], cluster[c], sync[c], poll[c], result[c], probe[c], calls[c],
      trace[c], member[c]>>

\* The candidate computed again from what the reconciliation of c itself
\* loaded and observed.
OwnCandidate(c) ==
    IF sync[c].timedOut
      THEN UnreachableStatus(trace[c].before, sync[c],
                             sync[c].currentTime).currentClusterStatus
      ELSE AssembleStatus(trace[c].before, sync[c],
                          GetNodeSummary(member[c].nodes, member[c].pods),
                          sync[c].currentTime).currentClusterStatus

(***************************************************************************)
(* C17.  Cross-cluster independence.  Under every interleaving, a step     *)
(* changes the state of at most one cluster (a reconciliation writes only  *)
(* its own cluster's stored status), the snapshot a reconciliation works   *)
(* on is its own cluster's, and the stored status of each cluster is what  *)
(* its own reconciliation produces alone: the status it loaded until its   *)
(* write succeeded, and from then on the candidate computed from its own   *)
(* snapshot and its own observations.                                      *)
(***************************************************************************)
C17_Independence ==
    /\ [][\A c, d \in Clusters :
            (c # d /\ StateOf(c)' # StateOf(c)) => StateOf(d)' = StateOf(d)]_vars
    /\ [](\A c \in Clusters :
            /\ pc[c] \notin {"idle", "done"} =>
                  /\ cluster[c] = store[c]
                  /\ cluster[c].status = trace[c].before
            /\ Assembled(c) => Candidate(c) = OwnCandidate(c)
            /\ pc[c] = "done" =>
                  store[c].status =
                      IF calls[c]["update"] = 1 /\ result[c].err = "nil"
                        THEN OwnCandidate(c) ELSE trace[c].before)

\* The reconciliation of member2 assembled its candidate at time 0 and has
\* not persisted it yet; meanwhile the one of member1 ran to its end and
\* stored a status with another condition, assembled later.
C17_Witness ==
    /\ pc["member2"] = "persist" /\ sync["member2"].currentTime = 0
    /\ store["member2"].status = ZeroClusterStatus
    /\ pc["member1"] = "done" /\ sync["member1"].currentTime = 1
    /\ calls["member1"]["update"] = 1 /\ result["member1"].err = "nil"
    /\ store["member1"].status = OwnCandidate("member1")
    /\ store["member1"].status.conditions[1].reason
          # Candidate("member2").conditions[1].reason

-----------------------------------------------------------------------------
(***************************************************************************)
(* The worker that took a key runs its reconciliation to the end: every    *)
(* step of a reconciliation in progress is eventually taken.               *)
(***************************************************************************)
ReconcileStep(c) ==
    \/ NewClusterClient(c)
    \/ InitialProbe(c)
    \/ PollTick(c)
    \/ PollTimeout(c)
    \/ SyncKubernetesVersion(c)
    \/ SyncAPIEnablements(c)
    \/ SyncNodeSummary(c)
    \/ UpdateStatusIfNeeded(c)

\* A status an earlier reconciliation of a ready cluster stored at time 0.
StoredReady(m) ==
    AssembleStatus(ZeroClusterStatus,
                   [NoSync EXCEPT !.online = TRUE, !.healthy = TRUE,
                                  !.clusterVersion = CHOOSE v \in Versions : TRUE,
                                  !.apiEnables = GetAPIEnablements(
                                                    CHOOSE l \in APIResourceLists : TRUE)],
                   GetNodeSummary(m.nodes, m.pods), 0).currentClusterStatus

\* One cluster that carries the finalizer and keeps it, with or without a
\* stored status, and one reconciliation of it to come.
LiveInit ==
    /\ queue = {"member1"}
    /\ member \in [Clusters -> Members]
    /\ \E st \in {ZeroClusterStatus, StoredReady(member["member1"])} :
          store = [c \in Clusters |->
                      [NewCluster EXCEPT !.finalizer = TRUE,
                                         !.status = IF c \in queue THEN st ELSE @]]
    /\ pc = [c \in Clusters |-> "idle"]
    /\ cluster = [c \in Clusters |-> NoCluster]
    /\ sync = [c \in Clusters |-> NoSync]
    /\ poll = [c \in Clusters |-> NoPoll]
    /\ result = [c \in Clusters |-> NoReturn]
    /\ probe = [c \in Clusters |-> NoProbe]
    /\ calls = [c \in Clusters |-> NoCalls]
    /\ trace = [c \in Clusters |-> [NoTrace EXCEPT !.rounds = MaxReconciles - 1]]
    /\ now = 0

LiveNext ==
    \/ \E c \in Clusters : Reconcile(c)
    \/ \E c \in Clusters : ReconcileStep(c)
    \/ \E c \in Clusters : Requeue(c)
    \/ Tick

LiveSpec ==
    /\ LiveInit
    /\ [][LiveNext]_vars
    /\ \A c \in Clusters : WF_vars(ReconcileStep(c))

\* The Cluster of c is stored, carries the finalizer and is not marked for
\* deletion, and so did the snapshot of the reconciliation of c.
Kept(c) ==
    /\ store[c].exists /\ store[c].finalizer /\ ~store[c].deleting
    /\ cluster[c].exists /\ cluster[c].finalizer /\ ~cluster[c].deleting

(***************************************************************************)
(* C18.  Convergence.  For a cluster that keeps the finalizer and is not   *)
(* deleted: every reconciliation that was started completes; when it       *)
(* completes without an error, the stored condition carries the reason and *)
(* message of the table row of its final probe outcome, so a cluster seen  *)
(* online and not healthy has ClusterNotReady stored; when it completes    *)
(* with an error (of the client, the server-version, discovery, node-list  *)
(* or pod-list call, or of the update), the stored status is the one it    *)
(* found.                                                                  *)
(***************************************************************************)
C18_Convergence ==
    /\ [](\A c \in Clusters :
            (pc[c] = "done" /\ Kept(c) /\ probe[c] # NoProbe) =>
                IF result[c].err = "nil"
                  THEN /\ StoredReason(c, ReadyRow(sync[c].online, sync[c].healthy)[2])
                       /\ store[c].status.conditions[1].message
                             = ReadyRow(sync[c].online, sync[c].healthy)[3]
                  ELSE store[c].status = trace[c].before)
    /\ \A c \in Clusters : (pc[c] \notin {"idle", "done"}) ~> (pc[c] = "done")

\* A cluster stored as Ready was seen online and not healthy, every call
\* succeeded, and ClusterNotReady is stored.
C18_Witness ==
    \E c \in Clusters :
        /\ pc[c] = "done" /\ Kept(c) /\ result[c].err = "nil"
        /\ sync[c].online /\ ~sync[c].healthy
        /\ calls[c]["update"] = 1
        /\ Len(trace[c].before.conditions) = 1
        /\ trace[c].before.conditions[1].reason = clusterReady
        /\ StoredReason(c, clusterNotReady)

\* C18 as stated: once a reconciliation of a cluster that keeps the
\* finalizer and is not deleted has completed, the stored reason is the
\* table row of its probe outcome, whether or not the server-version,
\* discovery, node-list and pod-list calls succeeded.
C18_Original ==
    \A c \in Clusters :
        (pc[c] = "done" /\ Kept(c) /\ probe[c] # NoProbe) =>
            StoredReason(c, ReadyRow(sync[c].online, sync[c].healthy)[2])

-----------------------------------------------------------------------------
\* The three observation fields of a status are empty.
ObservationsEmpty(st) ==
    /\ st.kubernetesVersion = ""
    /\ st.apiEnablements = <<>>
    /\ st.nodeSummary = ZeroNodeSummary

(***************************************************************************)
(* C19.  The unreachable write replaces the whole status.  The candidate   *)
(* of a reconciliation whose poll timed out holds the ClusterNotReachable  *)
(* condition and empty kubernetesVersion, apiEnablements and nodeSummary,  *)
(* whatever the stored status held; the update is issued with it, and      *)
(* when the update succeeds the stored status holds it, the three fields   *)
(* empty.                                                                  *)
(***************************************************************************)
C19_UnreachableReplaces ==
    \A c \in Clusters :
        (pc[c] \in {"persist", "done"} /\ sync[c].timedOut) =>
            /\ ObservationsEmpty(Candidate(c))
            /\ Len(Candidate(c).conditions) = 1
            /\ Candidate(c).conditions[1].reason = clusterNotReachableReason
            /\ calls[c]["update"] = 1 => cluster[c].status = Candidate(c)
            /\ (pc[c] = "done" /\ calls[c]["update"] = 1 /\ result[c].err = "nil"
                  /\ store[c].exists) =>
                  /\ store[c].status = Candidate(c)
                  /\ ObservationsEmpty(store[c].status)

\* The stored status held a version, enablements and a node summary; the
\* poll timed out and the write left the three fields empty.
C19_Witness ==
    \E c \in Clusters :
        /\ pc[c] = "done" /\ sync[c].timedOut
        /\ calls[c]["update"] = 1 /\ result[c].err = "nil" /\ store[c].exists
        /\ trace[c].before.kubernetesVersion # ""
        /\ trace[c].before.apiEnablements # <<>>
        /\ trace[c].before.nodeSummary # ZeroNodeSummary
        /\ ObservationsEmpty(store[c].status)
        /\ StoredReason(c, clusterNotReachableReason)

-----------------------------------------------------------------------------
(***************************************************************************)
(* C20.  The first observation gets a fresh timestamp.  When the stored    *)
(* status holds no condition, the candidate keeps the time at which its    *)
(* condition was generated, also when the candidate is not ready, and the  *)
(* update is issued with it; the candidate carries a stored timestamp only *)
(* when the stored status holds a condition and the readiness              *)
(* classifications are equal, and then it is that of the first stored      *)
(* condition.                                                              *)
(***************************************************************************)
C20_FirstObservation ==
    \A c \in Clusters :
        Assembled(c) =>
            LET before == trace[c].before
                copied == /\ Len(before.conditions) # 0
                          /\ IsClusterReady(before) = IsClusterReady(Candidate(c))
            IN  /\ \A i \in 1..Len(Candidate(c).conditions) :
                      Candidate(c).conditions[i].lastTransitionTime =
                          IF copied THEN before.conditions[1].lastTransitionTime
                                    ELSE sync[c].currentTime
                /\ (Len(before.conditions) = 0 /\ pc[c] = "done") =>
                      /\ calls[c]["update"] = 1
                      /\ cluster[c].status = Candidate(c)
                      /\ (result[c].err = "nil" /\ store[c].exists) =>
                            /\ store[c].status = Candidate(c)
                            /\ LTT(store[c].status) = sync[c].currentTime

\* A cluster without a stored condition was first observed, not ready, at a
\* time after the start, and that time is stored.
C20_Witness ==
    \E c \in Clusters :
        /\ pc[c] = "done" /\ Assembled(c)
        /\ Len(trace[c].before.conditions) = 0
        /\ ~IsClusterReady(Candidate(c))
        /\ sync[c].currentTime > 0
        /\ calls[c]["update"] = 1 /\ result[c].err = "nil" /\ store[c].exists
        /\ Len(store[c].status.conditions) = 1
        /\ LTT(store[c].status) = sync[c].currentTime

=============================================================================
